---- MODULE Spec2Model ----
(***************************************************************************)
(* Model of fix_backend_prints.py: main() walks a directory tree, and for  *)
(* every Rust file fix_missing_println() reads the text, splits it into    *)
(* lines, runs a forward scan that wraps orphaned string-literal lines in  *)
(* ic_cdk::println!( ... ); and writes the file back when the text changed.*)
(*                                                                         *)
(* A string is a sequence of one-character strings; a file's text contains *)
(* "\n" characters and is split and joined as the code does.               *)
(***************************************************************************)
EXTENDS Integers, Sequences, FiniteSets, TLC

\* ------------------------------------------------------------------ bounds
\* most Rust files in the tree
MaxFiles == 2
\* most lines in the whole tree (every file has at least one line)
MaxLines == 3

\* ------------------------------------------------- string primitives (str)
\* characters str.strip() removes and the regex class \s matches
WS == {" ", "\t"}

\* length of the leading run of whitespace
LeadWS(s) ==
    CHOOSE k \in 0..Len(s) :
        /\ \A m \in 1..k : s[m] \in WS
        /\ (k = Len(s) \/ s[k + 1] \notin WS)

\* length of the trailing run of characters of the set cs
TrailRun(s, cs) ==
    CHOOSE k \in 0..Len(s) :
        /\ \A m \in (Len(s) - k + 1)..Len(s) : s[m] \in cs
        /\ (k = Len(s) \/ s[Len(s) - k] \notin cs)

\* str.lstrip()
LStrip(s) == SubSeq(s, LeadWS(s) + 1, Len(s))

\* str.rstrip()
RStrip(s) == SubSeq(s, 1, Len(s) - TrailRun(s, WS))

\* str.strip()
Strip(s) == LStrip(RStrip(s))

\* str.rstrip(','): removes every trailing comma
RStripComma(s) == SubSeq(s, 1, Len(s) - TrailRun(s, {","}))

\* str.endswith(suf)
EndsWith(s, suf) ==
    /\ Len(s) >= Len(suf)
    /\ SubSeq(s, Len(s) - Len(suf) + 1, Len(s)) = suf

\* str.startswith(pre)
StartsWith(s, pre) ==
    /\ Len(s) >= Len(pre)
    /\ SubSeq(s, 1, Len(pre)) = pre

\* sub in s
Contains(s, sub) ==
    \E k \in 0..(Len(s) - Len(sub)) : SubSeq(s, k + 1, k + Len(sub)) = sub

\* index of the first "\n" of s, 0 when there is none
FirstNL(s) ==
    IF \E k \in 1..Len(s) : s[k] = "\n"
    THEN CHOOSE k \in 1..Len(s) : s[k] = "\n" /\ \A m \in 1..(k - 1) : s[m] # "\n"
    ELSE 0

RECURSIVE Split(_)
\* content.split('\n'): always at least one line
Split(s) ==
    IF FirstNL(s) = 0
    THEN <<s>>
    ELSE <<SubSeq(s, 1, FirstNL(s) - 1)>> \o Split(SubSeq(s, FirstNL(s) + 1, Len(s)))

RECURSIVE Join(_)
\* '\n'.join(fixed_lines)
Join(ls) ==
    IF Len(ls) = 0 THEN <<>>
    ELSE IF Len(ls) = 1 THEN ls[1]
    ELSE ls[1] \o <<"\n">> \o Join(Tail(ls))

\* ------------------------------------------------------- fixed vocabulary
\* 'ic_cdk::println!'
MACRO == <<"i","c","_","c","d","k",":",":","p","r","i","n","t","l","n","!">>

\* the substrings that keep a quote-prefixed line from being a candidate
Exclusions ==
    { MACRO,
      <<"r","e","t","u","r","n"," ">>,
      <<"f","o","r","m","a","t","!">>,
      <<"p","a","n","i","c","!">>,
      <<"a","s","s","e","r","t","!">>,
      <<"="," ","\"">>,
      <<"l","e","t"," ">>,
      <<"c","o","n","s","t"," ">> }

\* ------------------------------------------------------- line classification
\* re.match(r'^\s+"', line)
MatchIndentQuote(line) ==
    /\ LeadWS(line) >= 1
    /\ LeadWS(line) < Len(line)
    /\ line[LeadWS(line) + 1] = "\""

\* a candidate test without the exclusion list
IsCandidateAnyQuote(line) == MatchIndentQuote(line)

\* the condition of the if at the head of the scan loop
IsCandidate(line) ==
    /\ MatchIndentQuote(line)
    /\ \A e \in Exclusions : ~Contains(line, e)

\* the condition of the look-ahead loop on one line
IsContinuation(line) ==
    \/ EndsWith(Strip(line), <<",">>)
    \/ /\ EndsWith(Strip(line), <<")", ";">>)
       /\ ~StartsWith(Strip(line), <<")">>)

RECURSIVE ScanEndAtClose(_, _)
\* a look-ahead that stops after the first line ending with ");"
ScanEndAtClose(ls, j) ==
    IF j < Len(ls) /\ IsContinuation(ls[j + 1])
    THEN IF EndsWith(Strip(ls[j + 1]), <<")", ";">>)
         THEN j + 1
         ELSE ScanEndAtClose(ls, j + 1)
    ELSE j

RECURSIVE ScanEnd(_, _)
\* the look-ahead loop: the value of j (0-based) when it exits
ScanEnd(ls, j) ==
    IF j < Len(ls) /\ IsContinuation(ls[j + 1])
    THEN ScanEnd(ls, j + 1)
    ELSE j

\* re.match(r'^(\s*)', line).group(1)
Indent(line) == SubSeq(line, 1, LeadWS(line))

\* ------------------------------------------------------------ reconstruction
\* a last continuation line closed whatever it ends with
CloseLastAlways(last_line) == RStripComma(RStrip(last_line)) \o <<")", ";">>

\* the last continuation line, closed
CloseLast(last_line) ==
    IF EndsWith(Strip(last_line), <<")", ";">>)
    THEN last_line
    ELSE RStripComma(RStrip(last_line)) \o <<")", ";">>

\* a block that loses its inner continuation lines
MultiLineDropInner(line, continuation_lines) ==
    <<Indent(line) \o MACRO \o <<"(">> \o Strip(line)>>
        \o <<CloseLast(continuation_lines[Len(continuation_lines)])>>

\* the lines emitted for a candidate with continuation lines
MultiLine(line, continuation_lines) ==
    <<Indent(line) \o MACRO \o <<"(">> \o Strip(line)>>
        \o SubSeq(continuation_lines, 1, Len(continuation_lines) - 1)
        \o <<CloseLast(continuation_lines[Len(continuation_lines)])>>

\* the stripped line with its semicolon kept
QuoteContentKeep(line) == Strip(line)

\* the stripped line without one trailing semicolon
QuoteContent(line) ==
    IF EndsWith(Strip(line), <<";">>)
    THEN SubSeq(Strip(line), 1, Len(Strip(line)) - 1)
    ELSE Strip(line)

\* the line emitted for a candidate without continuation lines
SingleLine(line) ==
    Indent(line) \o MACRO \o <<"(">> \o QuoteContent(line) \o <<")", ";">>

RECURSIVE FixLines(_, _, _)
\* the scan loop run to its end from index i with the output fixed so far
FixLines(ls, i, fixed) ==
    IF i >= Len(ls) THEN fixed
    ELSE IF IsCandidate(ls[i + 1])
         THEN IF ScanEnd(ls, i + 1) > i + 1
              THEN FixLines(ls, ScanEnd(ls, i + 1),
                            fixed \o MultiLine(ls[i + 1], SubSeq(ls, i + 2, ScanEnd(ls, i + 1))))
              ELSE FixLines(ls, i + 1, Append(fixed, SingleLine(ls[i + 1])))
         ELSE FixLines(ls, i + 1, Append(fixed, ls[i + 1]))

\* new_content as a function of the text read
Rewrite(text) == Join(FixLines(Split(text), 0, <<>>))

\* ------------------------------------------------------------------- inputs
\* the lines files are made of
LinePool ==
    { <<" ", "\"", "a", "\"", ";">>,
      <<"\t", "\"", "b", "\"", ",", " ">>,
      <<" ", "x", ")", ";">>,
      <<" ", ")", ";">>,
      <<"y", ",", ",", " ">>,
      <<" ", "\"", "l", "e", "t", " ", "\"", ",">>,
      <<" ", "\"", "i","c","_","c","d","k",":",":","p","r","i","n","t","l","n","!", "\"">>,
      <<"\"", "a", "\"">> }

\* the line lists of at most n lines
Contents(n) == UNION { [1..k -> LinePool] : k \in 1..n }

RECURSIVE Trees(_, _)
\* the trees of at most f files and b lines altogether, as lists of line lists
Trees(f, b) ==
    {<<>>} \cup
    (IF f = 0 \/ b = 0 THEN {}
     ELSE UNION { { <<c>> \o t : t \in Trees(f - 1, b - Len(c)) } : c \in Contents(b) })

\* -------------------------------------------------------------------- state
VARIABLES
    disk,              \* path -> text of the Rust files under backend_dir
    rootOk,            \* backend_dir exists and can be listed
    start,             \* the disk when the current run began
    run,               \* 1 in the first invocation of the script, 2 in the second
    pc,                \* position of the control flow
    rust_files,        \* main: the list of discovered paths
    idx,               \* main: position of the for loop in rust_files
    fixed_count,       \* main: fixed_count
    out,               \* standard output of the current run, one entry per printed line
    raised,            \* an exception was raised in this run or the one before
    original_content,  \* fix_missing_println: original_content
    lines,             \* fix_missing_println: lines
    fixed_lines,       \* fix_missing_println: fixed_lines
    i,                 \* fix_missing_println: i (0-based)
    new_content        \* fix_missing_println: new_content

vars == <<disk, rootOk, start, run, pc, rust_files, idx, fixed_count, out, raised,
          original_content, lines, fixed_lines, i, new_content>>

main_vars == <<rust_files, idx, fixed_count>>
local_vars == <<original_content, lines, fixed_lines, i, new_content>>

\* the path the for loop of main is at
Path == rust_files[idx]

Init ==
    /\ \E t \in Trees(MaxFiles, MaxLines) : disk = [p \in 1..Len(t) |-> Join(t[p])]
    /\ rootOk \in BOOLEAN
    /\ start = disk
    /\ run = 1
    /\ pc = "walk"
    /\ rust_files = <<>>
    /\ idx = 1
    /\ fixed_count = 0
    /\ out = <<>>
    /\ raised = FALSE
    /\ original_content = <<>>
    /\ lines = <<>>
    /\ fixed_lines = <<>>
    /\ i = 0
    /\ new_content = <<>>

\* a walk that lists the files whatever the state of the root
WalkResultAnyRoot == [p \in 1..Len(disk) |-> p]

\* os.walk(backend_dir): errors of the directory listing are ignored
\* (onerror is None), so a root that cannot be listed yields no file
WalkResult == IF rootOk THEN [p \in 1..Len(disk) |-> p] ELSE <<>>

\* main up to the for loop over rust_files
Walk ==
    /\ pc = "walk"
    /\ rust_files' = WalkResult
    /\ out' = Append(out, <<"Found", Len(WalkResult)>>)
    /\ fixed_count' = 0
    /\ idx' = 1
    /\ pc' = "loop"
    /\ UNCHANGED <<raised, disk, rootOk, start, run, local_vars>>

\* the locals of fix_missing_println after it returned
Returned ==
    /\ original_content' = <<>>
    /\ lines' = <<>>
    /\ fixed_lines' = <<>>
    /\ i' = 0
    /\ new_content' = <<>>

\* fix_missing_println is called and reads the file
ReadOk ==
    /\ pc = "loop"
    /\ idx <= Len(rust_files)
    /\ original_content' = disk[Path]
    /\ lines' = Split(disk[Path])
    /\ fixed_lines' = <<>>
    /\ i' = 0
    /\ pc' = "scan"
    /\ UNCHANGED <<raised, disk, rootOk, start, run, main_vars, out, new_content>>

\* an exception that ends the for loop of main
ReadFailAbort ==
    /\ pc = "loop"
    /\ idx <= Len(rust_files)
    /\ out' = Append(out, <<"Error", Path>>)
    /\ raised' = TRUE
    /\ idx' = Len(rust_files) + 1
    /\ Returned
    /\ UNCHANGED <<disk, rootOk, start, run, pc, rust_files, fixed_count>>

\* open or read raises: the handler prints and returns False
ReadFail ==
    /\ pc = "loop"
    /\ idx <= Len(rust_files)
    /\ out' = Append(out, <<"Error", Path>>)
    /\ raised' = TRUE
    /\ idx' = idx + 1
    /\ Returned
    /\ UNCHANGED <<disk, rootOk, start, run, pc, rust_files, fixed_count>>

\* an else branch that drops trailing whitespace
ScanUnrelatedTrim ==
    /\ pc = "scan"
    /\ i < Len(lines)
    /\ ~IsCandidate(lines[i + 1])
    /\ fixed_lines' = Append(fixed_lines, RStrip(lines[i + 1]))
    /\ i' = i + 1
    /\ UNCHANGED <<raised, disk, rootOk, start, run, pc, main_vars, out,
                   original_content, lines, new_content>>

\* one iteration of the scan loop: the else branch
ScanUnrelated ==
    /\ pc = "scan"
    /\ i < Len(lines)
    /\ ~IsCandidate(lines[i + 1])
    /\ fixed_lines' = Append(fixed_lines, lines[i + 1])
    /\ i' = i + 1
    /\ UNCHANGED <<raised, disk, rootOk, start, run, pc, main_vars, out,
                   original_content, lines, new_content>>

\* one iteration of the scan loop: a candidate without continuation lines
ScanSingle ==
    /\ pc = "scan"
    /\ i < Len(lines)
    /\ IsCandidate(lines[i + 1])
    /\ ScanEnd(lines, i + 1) = i + 1
    /\ fixed_lines' = Append(fixed_lines, SingleLine(lines[i + 1]))
    /\ i' = i + 1
    /\ UNCHANGED <<raised, disk, rootOk, start, run, pc, main_vars, out,
                   original_content, lines, new_content>>

\* one iteration of the scan loop: a candidate with continuation lines
ScanMulti ==
    /\ pc = "scan"
    /\ i < Len(lines)
    /\ IsCandidate(lines[i + 1])
    /\ ScanEnd(lines, i + 1) > i + 1
    /\ fixed_lines' = fixed_lines \o
           MultiLine(lines[i + 1], SubSeq(lines, i + 2, ScanEnd(lines, i + 1)))
    /\ i' = ScanEnd(lines, i + 1)
    /\ UNCHANGED <<raised, disk, rootOk, start, run, pc, main_vars, out,
                   original_content, lines, new_content>>

\* the scan loop exits and the output is joined
ScanExit ==
    /\ pc = "scan"
    /\ i >= Len(lines)
    /\ new_content' = Join(fixed_lines)
    /\ pc' = "compare"
    /\ UNCHANGED <<raised, disk, rootOk, start, run, main_vars, out,
                   original_content, lines, fixed_lines, i>>

\* the text did not change: return False
NoChange ==
    /\ pc = "compare"
    /\ new_content = original_content
    /\ idx' = idx + 1
    /\ pc' = "loop"
    /\ Returned
    /\ UNCHANGED <<raised, disk, rootOk, start, run, rust_files, fixed_count, out>>

\* a write that does not look at whether the text changed
WriteAlways ==
    /\ pc = "compare"
    /\ disk' = [disk EXCEPT ![Path] = new_content]
    /\ out' = Append(out, <<"Fixed", Path>>)
    /\ fixed_count' = fixed_count + 1
    /\ idx' = idx + 1
    /\ pc' = "loop"
    /\ Returned
    /\ UNCHANGED <<raised, rootOk, start, run, rust_files>>

\* the text changed and is written: print, return True, main counts it
WriteOk ==
    /\ pc = "compare"
    /\ new_content # original_content
    /\ disk' = [disk EXCEPT ![Path] = new_content]
    /\ out' = Append(out, <<"Fixed", Path>>)
    /\ fixed_count' = fixed_count + 1
    /\ idx' = idx + 1
    /\ pc' = "loop"
    /\ Returned
    /\ UNCHANGED <<raised, rootOk, start, run, rust_files>>

\* what a failed write can leave in the file: the old text (open failed),
\* nothing (truncated by open) or the new text (the failure came at close)
WriteFailOutcomes == {original_content, <<>>, new_content}

\* the text changed and writing raises: the handler prints and returns False
WriteFail ==
    /\ pc = "compare"
    /\ new_content # original_content
    /\ \E left \in WriteFailOutcomes : disk' = [disk EXCEPT ![Path] = left]
    /\ out' = Append(out, <<"Error", Path>>)
    /\ raised' = TRUE
    /\ idx' = idx + 1
    /\ pc' = "loop"
    /\ Returned
    /\ UNCHANGED <<rootOk, start, run, rust_files, fixed_count>>

\* the for loop of main is over: print the summary
Summary ==
    /\ pc = "loop"
    /\ idx > Len(rust_files)
    /\ out' = Append(out, <<"Summary", fixed_count>>)
    /\ pc' = "done"
    /\ UNCHANGED <<raised, disk, rootOk, start, run, main_vars, local_vars>>

\* the script is run a second time over the same tree
Rerun ==
    /\ pc = "done"
    /\ run = 1
    /\ run' = 2
    /\ start' = disk
    /\ pc' = "walk"
    /\ rust_files' = <<>>
    /\ idx' = 1
    /\ fixed_count' = 0
    /\ out' = <<>>
    /\ UNCHANGED <<disk, rootOk, raised, local_vars>>

Next ==
    \/ Walk
    \/ ReadOk
    \/ ReadFail
    \/ ScanUnrelated
    \/ ScanSingle
    \/ ScanMulti
    \/ ScanExit
    \/ NoChange
    \/ WriteOk
    \/ WriteFail
    \/ Summary
    \/ Rerun

Spec == Init /\ [][Next]_vars

\* ------------------------------------------------- vocabulary of the claims
Printed(entry) == \E k \in 1..Len(out) : out[k] = entry

\* the number of continuation lines after line k (1-based) of ls: the length
\* of the longest run of lines after it that all pass the continuation test
RunLen(ls, k) ==
    CHOOSE n \in 0..(Len(ls) - k) :
        /\ \A m \in 1..n : IsContinuation(ls[k + m])
        /\ (k + n = Len(ls) \/ ~IsContinuation(ls[k + n + 1]))

\* the scan loop is about to classify a candidate-start line
AtCandidate == pc = "scan" /\ i < Len(lines) /\ IsCandidate(lines[i + 1])

\* the line holds the macro token or an exclusion substring
Excluded(line) == \E e \in Exclusions : Contains(line, e)

\* ' "a";' and what it is rewritten to
HelloLine == <<" ", "\"", "a", "\"", ";">>
HelloFixed ==
    <<" ", "i","c","_","c","d","k",":",":","p","r","i","n","t","l","n","!",
      "(", "\"", "a", "\"", ")", ";">>

\* ---------------------------------------------------------------- C10
\* C10: at the head of every iteration of the scan loop the number of output
\* lines equals i; every iteration increases i, by 1 for an unrelated line or
\* a single-line candidate and by 1 + the number of continuation lines for a
\* block; the loop exits with i equal to the number of input lines, and the
\* output has exactly as many lines as the input.
ScanProgress ==
    [][ /\ pc = "scan" => Len(fixed_lines) = i /\ i <= Len(lines)
        /\ pc = "scan" /\ pc' = "scan" =>
              /\ i < i'
              /\ i' <= Len(lines)
              /\ Len(fixed_lines') = i'
              /\ i' - i = IF IsCandidate(lines[i + 1]) THEN 1 + RunLen(lines, i + 1) ELSE 1
        /\ pc = "scan" /\ pc' = "compare" =>
              /\ i = Len(lines)
              /\ Len(fixed_lines) = Len(lines)
              /\ Len(Split(new_content')) = Len(Split(original_content)) ]_vars

\* a block of two lines and a further line were scanned to the end
ScanProgressWitness ==
    /\ pc = "compare"
    /\ Len(lines) = 3
    /\ IsCandidate(lines[1])
    /\ IsContinuation(lines[2])
    /\ ~IsContinuation(lines[3])
    /\ Len(fixed_lines) = 3

\* ---------------------------------------------------------------- C9
\* C9: the look-ahead after a candidate-start consumes exactly the longest
\* run of lines that pass the continuation test, whatever they end with and
\* up to the end of the file; the consumed lines are not classified: the
\* inner ones are emitted verbatim and none of them is wrapped in the macro.
MaximalRun ==
    [][ AtCandidate =>
          /\ i' = i + 1 + RunLen(lines, i + 1)
          /\ \A k \in (i + 2)..i' : IsContinuation(lines[k])
          /\ i' = Len(lines) \/ ~IsContinuation(lines[i' + 1])
          /\ \A k \in (i + 2)..(i' - 1) : fixed_lines'[k] = lines[k]
          /\ \A k \in (i + 2)..i' :
                ~Contains(lines[k], MACRO) => ~Contains(fixed_lines'[k], MACRO) ]_vars

\* a block whose second line ends with ");" went on to a third line that
\* would itself be a candidate-start, and reached the end of the file
MaximalRunWitness ==
    /\ pc = "scan"
    /\ i = 3
    /\ Len(lines) = 3
    /\ IsCandidate(lines[1])
    /\ EndsWith(Strip(lines[2]), <<")", ";">>)
    /\ IsContinuation(lines[2])
    /\ IsCandidate(lines[3])
    /\ IsContinuation(lines[3])
    /\ fixed_lines[2] = lines[2]

\* ---------------------------------------------------------------- C5
\* C5: a candidate-start line without continuation lines is replaced by
\* exactly one line: its leading whitespace, 'ic_cdk::println!(', the line
\* stripped of surrounding whitespace and of one trailing semicolon, ');'.
SingleLineRewrite ==
    [][ /\ AtCandidate
        /\ i + 1 = Len(lines) \/ ~IsContinuation(lines[i + 2])
        => /\ i' = i + 1
           /\ Len(fixed_lines') = Len(fixed_lines) + 1
           /\ SubSeq(fixed_lines', 1, i) = fixed_lines
           /\ LET line == lines[i + 1]
                  content == IF Strip(line)[Len(Strip(line))] = ";"
                             THEN SubSeq(Strip(line), 1, Len(Strip(line)) - 1)
                             ELSE Strip(line)
              IN  /\ fixed_lines'[i + 1] =
                        SubSeq(line, 1, LeadWS(line)) \o MACRO \o <<"(">> \o content \o <<")", ";">>
                  /\ line = HelloLine => fixed_lines'[i + 1] = HelloFixed ]_vars

\* a line without a semicolon and then ' "a";' were each rewritten on their own
SingleLineRewriteWitness ==
    /\ pc = "scan"
    /\ i = 2
    /\ IsCandidate(lines[1])
    /\ ~EndsWith(Strip(lines[1]), <<";">>)
    /\ fixed_lines[1] = Indent(lines[1]) \o MACRO \o <<"(">> \o Strip(lines[1]) \o <<")", ";">>
    /\ lines[2] = HelloLine
    /\ fixed_lines[2] = HelloFixed
    /\ Len(lines) = 2 \/ ~IsContinuation(lines[3])

\* ---------------------------------------------------------------- C6
\* the text with one trailing comma removed, if it has one
DropOneComma(s) == IF EndsWith(s, <<",">>) THEN SubSeq(s, 1, Len(s) - 1) ELSE s

\* the text with every trailing comma removed
DropCommas(s) ==
    CHOOSE b \in { SubSeq(s, 1, k) : k \in 0..Len(s) } :
        /\ ~EndsWith(b, <<",">>)
        /\ \A m \in (Len(b) + 1)..Len(s) : s[m] = ","

\* C6 as stated: a candidate-start with n >= 1 continuation lines is replaced
\* by n + 1 lines: the candidate line prefixed with 'ic_cdk::println!(', the
\* first n - 1 continuation lines verbatim, and the last one as it is when it
\* ends with ');' and otherwise with a trailing comma stripped and ');'
\* appended.
MultiLineRewriteAsStated ==
    [][ AtCandidate /\ RunLen(lines, i + 1) >= 1 =>
          LET n == RunLen(lines, i + 1)
              line == lines[i + 1]
              last == lines[i + 1 + n]
          IN  /\ Len(fixed_lines') = Len(fixed_lines) + n + 1
              /\ fixed_lines'[i + 1] = Indent(line) \o MACRO \o <<"(">> \o LStrip(line)
              /\ \A m \in 1..(n - 1) : fixed_lines'[i + 1 + m] = lines[i + 1 + m]
              /\ fixed_lines'[i + 1 + n] =
                    IF EndsWith(Strip(last), <<")", ";">>)
                    THEN last
                    ELSE DropOneComma(RStrip(last)) \o <<")", ";">> ]_vars

\* C6 amended: the first line is the indent, 'ic_cdk::println!(' and the
\* candidate line stripped of surrounding whitespace; the last continuation
\* line is emitted as it is when its stripped text ends with ');' and
\* otherwise without its trailing whitespace and without any of its trailing
\* commas, followed by ');'.
MultiLineRewrite ==
    [][ AtCandidate /\ RunLen(lines, i + 1) >= 1 =>
          LET n == RunLen(lines, i + 1)
              line == lines[i + 1]
              last == lines[i + 1 + n]
          IN  /\ Len(fixed_lines') = Len(fixed_lines) + n + 1
              /\ SubSeq(fixed_lines', 1, i) = fixed_lines
              /\ fixed_lines'[i + 1] = Indent(line) \o MACRO \o <<"(">> \o Strip(line)
              /\ \A m \in 1..(n - 1) : fixed_lines'[i + 1 + m] = lines[i + 1 + m]
              /\ fixed_lines'[i + 1 + n] =
                    IF EndsWith(Strip(last), <<")", ";">>)
                    THEN last
                    ELSE DropCommas(RStrip(last)) \o <<")", ";">> ]_vars

\* a block of three lines was rewritten whose last line lost two commas
MultiLineRewriteWitness ==
    /\ pc = "scan"
    /\ i = 3
    /\ IsCandidate(lines[1])
    /\ IsContinuation(lines[2])
    /\ lines[3] = <<"y", ",", ",", " ">>
    /\ fixed_lines[3] = <<"y", ")", ";">>
    /\ fixed_lines[2] = lines[2]

\* ---------------------------------------------------------------- C4
\* line k of ls closes a block: it ends a run of continuation lines that
\* follows a candidate-start line
ClosesBlock(ls, k) ==
    /\ IsContinuation(ls[k])
    /\ k = Len(ls) \/ ~IsContinuation(ls[k + 1])
    /\ \E c \in 1..(k - 1) :
          /\ IsCandidate(ls[c])
          /\ \A m \in (c + 1)..k : IsContinuation(ls[m])

\* C4 as stated: a line that holds the macro token or an exclusion substring
\* appears in the output at the same position with exactly its original
\* text, whatever lines precede or follow it.
ExcludedVerbatimAsStated ==
    pc = "compare" =>
        \A k \in 1..Len(lines) :
            Excluded(lines[k]) => Len(fixed_lines) >= k /\ fixed_lines[k] = lines[k]

\* C4 amended: such a line is never a candidate-start and is never prefixed
\* with the macro; it appears in the output at the same position with its
\* original text, unless it is the last continuation line of a block opened
\* by an earlier candidate-start and its stripped text does not end with
\* ');': then it is emitted without its trailing whitespace and trailing
\* commas and with ');' appended.
ExcludedVerbatim ==
    pc = "compare" =>
        \A k \in 1..Len(lines) :
            Excluded(lines[k]) =>
                /\ Len(fixed_lines) >= k
                /\ ~Contains(lines[k], MACRO) => ~Contains(fixed_lines[k], MACRO)
                /\ \/ fixed_lines[k] = lines[k]
                   \/ /\ ClosesBlock(lines, k)
                      /\ EndsWith(Strip(lines[k]), <<",">>)
                      /\ fixed_lines[k] = DropCommas(RStrip(lines[k])) \o <<")", ";">>

\* a quote-prefixed line holding 'let ' closed a block and was changed, and
\* a quote-prefixed line holding the macro token came through verbatim
ExcludedVerbatimWitness ==
    /\ pc = "compare"
    /\ Len(lines) = 3
    /\ MatchIndentQuote(lines[2]) /\ Excluded(lines[2])
    /\ fixed_lines[2] # lines[2]
    /\ MatchIndentQuote(lines[3]) /\ Excluded(lines[3])
    /\ fixed_lines[3] = lines[3]

\* ---------------------------------------------------------------- C2
\* no line of the text is leading whitespace followed by a double quote
NoQuoteLine(text) ==
    LET ls == Split(text)
    IN  \A k \in 1..Len(ls) :
            ~\E n \in 1..(Len(ls[k]) - 1) :
                /\ \A m \in 1..n : ls[k][m] \in WS
                /\ ls[k][n + 1] = "\""

\* C2: for a file without a quote-prefixed line the reconstructed text is
\* the original text, the file is not written, nothing is reported as fixed
\* and the file is not counted.
NoOp ==
    [][ /\ pc = "compare" /\ NoQuoteLine(original_content) =>
              /\ new_content = original_content
              /\ disk' = disk
              /\ out' = out
              /\ fixed_count' = fixed_count
        /\ pc \in {"loop", "scan"} /\ idx <= Len(rust_files) /\ NoQuoteLine(disk[Path]) =>
              /\ disk' = disk
              /\ fixed_count' = fixed_count
              /\ out' = out \/ out' = Append(out, <<"Error", Path>>) ]_vars

\* a file of several lines, one of them a continuation line, none
\* quote-prefixed, was processed and left alone
NoOpWitness ==
    /\ pc = "loop"
    /\ idx = 2
    /\ Len(Split(disk[1])) >= 2
    /\ NoQuoteLine(disk[1])
    /\ \E k \in 1..Len(Split(disk[1])) : IsContinuation(Split(disk[1])[k])
    /\ out = <<<<"Found", Len(rust_files)>>>>
    /\ Len(rust_files) >= 1

\* ---------------------------------------------------------------- C3
\* the number of files the current run reported as fixed
FixedReports == Cardinality({ k \in 1..Len(out) : out[k][1] = "Fixed" })

\* C3: a file processed without an exception is overwritten, reported and
\* counted if and only if the reconstructed text differs from the original;
\* otherwise the disk, the output and the count are left alone; the summary
\* prints the number of files reported as fixed.
WriteIffChanged ==
    [][ /\ pc = "compare" /\ out' # Append(out, <<"Error", Path>>) =>
              IF new_content # original_content
              THEN /\ disk' = [disk EXCEPT ![Path] = new_content]
                   /\ disk' # disk
                   /\ out' = Append(out, <<"Fixed", Path>>)
                   /\ fixed_count' = fixed_count + 1
              ELSE /\ disk' = disk
                   /\ out' = out
                   /\ fixed_count' = fixed_count
        /\ pc # "compare" => disk' = disk /\ fixed_count' <= fixed_count
        /\ pc' = "done" => out'[Len(out')] = <<"Summary", FixedReports'>> ]_vars

\* a run ended in which the first file was rewritten and the second was not
WriteIffChangedWitness ==
    /\ pc = "done"
    /\ Len(rust_files) = 2
    /\ out = << <<"Found", 2>>, <<"Fixed", 1>>, <<"Summary", 1>> >>
    /\ disk[1] # start[1]
    /\ disk[2] = start[2]

\* ---------------------------------------------------------------- C7
\* C7: an exception on one file is reported, the file is not counted, main
\* goes on with the remaining files in order and prints the summary, and
\* every file processed without an error has the outcome its own text
\* determines.
ErrorIsolation ==
    pc \in {"loop", "done"} =>
        /\ pc = "done" => idx = Len(rust_files) + 1
        /\ pc = "done" => out[Len(out)] = <<"Summary", FixedReports>>
        /\ fixed_count = FixedReports
        /\ Len(out) >= 1 /\ out[1] = <<"Found", Len(rust_files)>>
        /\ \A k, m \in 2..Len(out) :
              k < m /\ out[m][1] # "Summary" => out[k][2] < out[m][2]
        /\ \A k \in 1..(idx - 1) :
              LET p == rust_files[k]
              IN  /\ ~(Printed(<<"Error", p>>) /\ Printed(<<"Fixed", p>>))
                  /\ ~Printed(<<"Error", p>>) =>
                        /\ disk[p] = Rewrite(start[p])
                        /\ Printed(<<"Fixed", p>>) <=> disk[p] # start[p]
        /\ \A p \in (DOMAIN disk) \ { rust_files[k] : k \in 1..(idx - 1) } :
              disk[p] = start[p]

\* a run ended in which the first file raised and the second was rewritten
ErrorIsolationWitness ==
    /\ pc = "done"
    /\ out = << <<"Found", 2>>, <<"Error", 1>>, <<"Fixed", 2>>, <<"Summary", 1>> >>
    /\ disk[2] # start[2]

\* ---------------------------------------------------------------- C8
\* C8 as stated: when the root directory cannot be listed the run does not
\* complete normally.
DiscoveryFatalAsStated == ~rootOk => pc # "done"

\* C8 amended: when the root directory does not exist or cannot be listed
\* the walk yields no file: no file is processed or written, and the run
\* completes normally with 'Found 0' and 'Fixed 0'.
DiscoverySilent ==
    ~rootOk =>
        /\ disk = start
        /\ pc \in {"walk", "loop", "done"}
        /\ pc # "walk" => rust_files = <<>>
        /\ pc = "loop" => out = << <<"Found", 0>> >>
        /\ pc = "done" => out = << <<"Found", 0>>, <<"Summary", 0>> >>

\* a run over an unlistable root with a file a rewrite would change ended
DiscoverySilentWitness ==
    /\ ~rootOk
    /\ pc = "done"
    /\ Len(disk) >= 1
    /\ Rewrite(disk[1]) # disk[1]

\* ---------------------------------------------------------------- C1
\* C1: a second run over the same tree, the first having met no error,
\* rewrites nothing: it reports zero fixes and leaves every file as it was.
Idempotent ==
    run = 2 /\ ~raised => fixed_count = 0 /\ disk = start

====
